---- MODULE Spec2Model ----
(***************************************************************************)
(* Model of the database utility: DatabaseManager (database/database.py), *)
(* the CLI main() of the same file, and the session dependency get_db     *)
(* (models/base.py), running against one relational store through the     *)
(* engine and the session maker of database/config.py.                    *)
(*                                                                         *)
(* One caller issues operations one after the other.  Every await of the  *)
(* code is one step; every call into the engine may fail.  The store is   *)
(* transactional: statements act on the open transaction's working copy,  *)
(* commit publishes it, rollback discards it.                             *)
(***************************************************************************)
EXTENDS Integers, Sequences, FiniteSets, TLC

VARIABLES
    db,         \* the committed state of the store
    tx,         \* the open transaction: [open, st], st the working copy
    checkedOut, \* number of connections taken from the pool
    op,         \* the function of database.py / base.py now executing
    pc,         \* position inside op
    ret,        \* how op ended: [kind |-> "return" | "raise", val]
    local,      \* local variables of op
    reset,      \* position inside reset_database ("none" when not running)
    cli,        \* state of main(): [pc, command, ran, exit, out]
    session,    \* the AsyncSession of execute_query / get_db: [conn, log]
    top,        \* the entry point the caller invoked
    pre,        \* history: db when the caller invoked top
    faulted,    \* history: the engine failed during the current call
    calls,      \* history: lifecycle operations reset_database has awaited
    prev        \* history: the previous call by the caller, [op, ok]

vars == <<db, tx, checkedOut, op, pc, ret, local, reset, cli, session,
          top, pre, faulted, calls, prev>>

(* ------------------------------ bounds -------------------------------- *)

\* most rows a table holds in the model
MaxRows == 2

(* ----------------------------- the store ------------------------------ *)

\* Table names of the public schema in ascending alphabetical order, as
\* ORDER BY table_name returns them.
NameOrder == <<"alembic_version", "quotes", "users">>

Tables == {NameOrder[i] : i \in 1..Len(NameOrder)}

\* Base.metadata: the tables of the imported models.
Registry == {"quotes", "users"}

EmptyStore ==
    [ext |-> FALSE, exists |-> {}, rows |-> [t \in Tables |-> 0]]

\* CREATE EXTENSION IF NOT EXISTS "uuid-ossp"
CreateExtension(st) == [st EXCEPT !.ext = TRUE]

\* Base.metadata.create_all: checkfirst, creates the tables that are missing
CreateAll(st) == [st EXCEPT !.exists = @ \cup Registry]

\* mutant of DropAll: nothing is dropped
DropAllKeeps(st) == st

\* Base.metadata.drop_all: checkfirst, drops the registry's tables
DropAll(st) ==
    [st EXCEPT !.exists = @ \ Registry,
               !.rows = [t \in Tables |-> IF t \in Registry THEN 0 ELSE @[t]]]

Insert(st, t) == [st EXCEPT !.rows[t] = @ + 1]

RECURSIVE Ordered(_, _)
Ordered(names, S) ==
    IF names = <<>> THEN <<>>
    ELSE IF Head(names) \in S THEN <<Head(names)>> \o Ordered(Tail(names), S)
    ELSE Ordered(Tail(names), S)

\* mutant of ListTables: the query without its ORDER BY clause
ListTablesUnordered(st) ==
    Ordered([i \in 1..Len(NameOrder) |-> NameOrder[Len(NameOrder) + 1 - i]],
            st.exists)

\* SELECT table_name FROM information_schema.tables
\*   WHERE table_schema = 'public' ORDER BY table_name
ListTables(st) == Ordered(NameOrder, st.exists)

\* SELECT COUNT(*) FROM "<table>"
CountRows(st, t) == st.rows[t]

(* ------------------------ engine and sessions ------------------------- *)

NoTx == [open |-> FALSE, st |-> EmptyStore]
NoRet == [kind |-> "none", val |-> FALSE]
Return(v) == [kind |-> "return", val |-> v]
Raise(e) == [kind |-> "raise", val |-> e]

NoQuery == [kind |-> "none", table |-> "none"]
NoLocal ==
    [pending |-> NoRet, err |-> "none", thrown |-> "none", wrote |-> FALSE,
     query |-> NoQuery, tables |-> <<>>, counts |-> <<>>, todo |-> <<>>]

NoSession == [conn |-> FALSE, log |-> <<>>]
NoCli == [pc |-> "none", command |-> "none", ran |-> FALSE, exit |-> 0,
          out |-> {}]

Lifecycle == {"test_connection", "create_tables", "drop_tables",
              "get_table_info"}

\* first statement inside "async with engine.begin() as conn" of each operation
Body(o) ==
    CASE o = "test_connection" -> "select1"
      [] o = "create_tables" -> "extension"
      [] o = "drop_tables" -> "drop_all"
      [] o = "get_table_info" -> "list"

\* the except clause of a lifecycle operation: log, report the failure
Failure(o, e) ==
    IF o = "get_table_info" THEN Return([error |-> e]) ELSE Return(FALSE)

\* The caller is between two calls.
Idle ==
    /\ pc \in {"idle", "ret"}
    /\ reset = "none"
    /\ cli.pc \in {"none", "exited"}

\* Did the finished call report success.
Succeeded ==
    /\ ret.kind = "return"
    /\ top \in {"test_connection", "create_tables", "drop_tables",
                "reset_database"} => ret.val = TRUE

\* history kept when the caller starts a call of entry point t
StartTop(t) ==
    /\ top' = t
    /\ pre' = db
    /\ faulted' = FALSE
    /\ calls' = <<>>
    /\ prev' = IF pc = "idle" THEN [op |-> "none", ok |-> FALSE]
               ELSE [op |-> top, ok |-> Succeeded /\ ~faulted]

\* enter lifecycle operation o at its "async with engine.begin()"
Enter(o) ==
    /\ op' = o
    /\ pc' = "begin"
    /\ ret' = NoRet
    /\ local' = NoLocal

\* mutant of BeginAbort: the connection is not given back on an exception
BeginAbortLeak(e) ==
    /\ tx' = NoTx
    /\ ret' = Failure(op, e)
    /\ pc' = "ret"
    /\ faulted' = TRUE
    /\ UNCHANGED <<db, checkedOut, op, local, reset, cli, session, top, pre,
                   calls, prev>>

\* An exception leaves the "async with engine.begin()" block of op: the
\* transaction is rolled back, the connection goes back to the pool, and the
\* except clause of the operation returns its failure value.
BeginAbort(e) ==
    /\ tx' = NoTx
    /\ checkedOut' = checkedOut - 1
    /\ ret' = Failure(op, e)
    /\ pc' = "ret"
    /\ faulted' = TRUE
    /\ UNCHANGED <<db, op, local, reset, cli, session, top, pre, calls, prev>>

(* ----------------------- DatabaseManager: calls ----------------------- *)

\* the caller awaits test_connection / create_tables / drop_tables /
\* get_table_info directly
CallLifecycle ==
    /\ Idle
    /\ \E o \in Lifecycle : StartTop(o) /\ Enter(o)
    /\ cli' = NoCli
    /\ session' = NoSession
    /\ UNCHANGED <<db, tx, checkedOut, reset>>

\* engine.begin(): take a connection from the pool and begin a transaction
EngineBegin ==
    /\ op \in Lifecycle /\ pc = "begin"
    /\ \E ok \in BOOLEAN :
        IF ok
        THEN /\ checkedOut' = checkedOut + 1
             /\ tx' = [open |-> TRUE, st |-> db]
             /\ pc' = Body(op)
             /\ UNCHANGED <<ret, faulted>>
        ELSE /\ ret' = Failure(op, "OperationalError")
             /\ pc' = "ret"
             /\ faulted' = TRUE
             /\ UNCHANGED <<tx, checkedOut>>
    /\ UNCHANGED <<db, op, local, reset, cli, session, top, pre, calls, prev>>

\* test_connection: conn.execute(text("SELECT 1")); return True
TestExecute ==
    /\ op = "test_connection" /\ pc = "select1"
    /\ \E ok \in BOOLEAN :
        IF ok
        THEN /\ local' = [local EXCEPT !.pending = Return(TRUE)]
             /\ pc' = "exit"
             /\ UNCHANGED <<db, tx, checkedOut, op, ret, reset, cli, session,
                            top, pre, faulted, calls, prev>>
        ELSE BeginAbort("OperationalError")

\* create_tables: conn.execute(text('CREATE EXTENSION IF NOT EXISTS ...'))
CreateExtensionStep ==
    /\ op = "create_tables" /\ pc = "extension"
    /\ \E ok \in BOOLEAN :
        IF ok
        THEN /\ tx' = [tx EXCEPT !.st = CreateExtension(@)]
             /\ pc' = "create_all"
             /\ UNCHANGED <<db, checkedOut, op, ret, local, reset, cli,
                            session, top, pre, faulted, calls, prev>>
        ELSE BeginAbort("OperationalError")

\* mutant of MetadataCreateAll: create_all(checkfirst=False), CREATE TABLE
\* is rejected for a table that exists
MetadataCreateAllNoCheck ==
    /\ op = "create_tables" /\ pc = "create_all"
    /\ \E ok \in BOOLEAN :
        IF ok /\ tx.st.exists \cap Registry = {}
        THEN /\ tx' = [tx EXCEPT !.st = CreateAll(@)]
             /\ local' = [local EXCEPT !.pending = Return(TRUE)]
             /\ pc' = "exit"
             /\ UNCHANGED <<db, checkedOut, op, ret, reset, cli, session,
                            top, pre, faulted, calls, prev>>
        ELSE /\ tx' = NoTx
             /\ checkedOut' = checkedOut - 1
             /\ ret' = Failure(op, "ProgrammingError")
             /\ pc' = "ret"
             /\ faulted' = (faulted \/ ~ok)
             /\ UNCHANGED <<db, op, local, reset, cli, session, top, pre,
                            calls, prev>>

\* create_tables: conn.run_sync(Base.metadata.create_all); return True
MetadataCreateAll ==
    /\ op = "create_tables" /\ pc = "create_all"
    /\ \E ok \in BOOLEAN :
        IF ok
        THEN /\ tx' = [tx EXCEPT !.st = CreateAll(@)]
             /\ local' = [local EXCEPT !.pending = Return(TRUE)]
             /\ pc' = "exit"
             /\ UNCHANGED <<db, checkedOut, op, ret, reset, cli, session,
                            top, pre, faulted, calls, prev>>
        ELSE BeginAbort("OperationalError")

\* drop_tables: conn.run_sync(Base.metadata.drop_all); return True
MetadataDropAll ==
    /\ op = "drop_tables" /\ pc = "drop_all"
    /\ \E ok \in BOOLEAN :
        IF ok
        THEN /\ tx' = [tx EXCEPT !.st = DropAll(@)]
             /\ local' = [local EXCEPT !.pending = Return(TRUE)]
             /\ pc' = "exit"
             /\ UNCHANGED <<db, checkedOut, op, ret, reset, cli, session,
                            top, pre, faulted, calls, prev>>
        ELSE BeginAbort("OperationalError")

\* get_table_info: the information_schema query, result["tables"] = tables
InfoListTables ==
    /\ op = "get_table_info" /\ pc = "list"
    /\ \E ok \in BOOLEAN :
        IF ok
        THEN /\ local' = [local EXCEPT !.tables = ListTables(tx.st),
                                       !.todo = ListTables(tx.st)]
             /\ pc' = "count"
             /\ UNCHANGED <<db, tx, checkedOut, op, ret, reset, cli, session,
                            top, pre, faulted, calls, prev>>
        ELSE BeginAbort("OperationalError")

\* get_table_info: one turn of "for table in tables", or "return result"
\* once the loop is over
InfoCount ==
    /\ op = "get_table_info" /\ pc = "count"
    /\ IF local.todo = <<>>
       THEN /\ local' = [local EXCEPT !.pending =
                    Return([tables |-> local.tables,
                            record_counts |-> local.counts])]
            /\ pc' = "exit"
            /\ UNCHANGED <<db, tx, checkedOut, op, ret, reset, cli, session,
                           top, pre, faulted, calls, prev>>
       ELSE \E ok \in BOOLEAN :
            IF ok
            THEN /\ local' = [local EXCEPT
                        !.counts = (Head(local.todo) :>
                                        CountRows(tx.st, Head(local.todo)))
                                   @@ @,
                        !.todo = Tail(@)]
                 /\ UNCHANGED <<db, tx, checkedOut, op, pc, ret, reset, cli,
                                session, top, pre, faulted, calls, prev>>
            ELSE BeginAbort("OperationalError")

\* mutant of EngineBeginExit: the try statement sits inside the "async with"
\* block, so a failing commit on exit is not caught
EngineBeginExitUncaught ==
    /\ op \in Lifecycle /\ pc = "exit"
    /\ \E ok \in BOOLEAN :
        /\ db' = IF ok THEN tx.st ELSE db
        /\ tx' = NoTx
        /\ checkedOut' = checkedOut - 1
        /\ ret' = IF ok THEN local.pending ELSE Raise("OperationalError")
        /\ pc' = "ret"
        /\ faulted' = (faulted \/ ~ok)
    /\ UNCHANGED <<op, local, reset, cli, session, top, pre, calls, prev>>

\* leaving "async with engine.begin()" on the return statement: commit, give
\* the connection back; a failing commit is an exception like any other
EngineBeginExit ==
    /\ op \in Lifecycle /\ pc = "exit"
    /\ \E ok \in BOOLEAN :
        IF ok
        THEN /\ db' = tx.st
             /\ tx' = NoTx
             /\ checkedOut' = checkedOut - 1
             /\ ret' = local.pending
             /\ pc' = "ret"
             /\ UNCHANGED <<op, local, reset, cli, session, top, pre,
                            faulted, calls, prev>>
        ELSE BeginAbort("OperationalError")

(* ------------------------- reset_database ----------------------------- *)

\* the caller awaits reset_database: "if await DatabaseManager.drop_tables()"
CallReset ==
    /\ Idle
    /\ StartTop("reset_database")
    /\ Enter("drop_tables")
    /\ reset' = "drop"
    /\ cli' = NoCli
    /\ session' = NoSession
    /\ UNCHANGED <<db, tx, checkedOut>>

\* mutant of ResetAfterDrop: create_tables is awaited whatever drop_tables
\* returned
ResetAfterDropAlways ==
    /\ reset = "drop" /\ op = "drop_tables" /\ pc = "ret"
    /\ calls' = Append(calls, [op |-> op, ret |-> ret])
    /\ Enter("create_tables")
    /\ reset' = "create"
    /\ UNCHANGED <<db, tx, checkedOut, cli, session, top, pre, faulted, prev>>

\* drop_tables has returned inside reset_database
ResetAfterDrop ==
    /\ reset = "drop" /\ op = "drop_tables" /\ pc = "ret"
    /\ calls' = Append(calls, [op |-> op, ret |-> ret])
    /\ IF ret.kind = "return" /\ ret.val = TRUE
       THEN /\ Enter("create_tables")
            /\ reset' = "create"
       ELSE /\ op' = "reset_database"
            /\ ret' = IF ret.kind = "return" THEN Return(FALSE) ELSE ret
            /\ reset' = "none"
            /\ UNCHANGED <<pc, local>>
    /\ UNCHANGED <<db, tx, checkedOut, cli, session, top, pre, faulted, prev>>

\* create_tables has returned inside reset_database: return its result
ResetAfterCreate ==
    /\ reset = "create" /\ op = "create_tables" /\ pc = "ret"
    /\ calls' = Append(calls, [op |-> op, ret |-> ret])
    /\ op' = "reset_database"
    /\ reset' = "none"
    /\ UNCHANGED <<db, tx, checkedOut, pc, ret, local, cli, session, top,
                   pre, faulted, prev>>

(* ------------------------------ sessions ------------------------------ *)

\* statements the caller passes to execute_query
Queries == [kind : {"select", "insert", "insert_returning"}, table : Tables]

\* the effect of a statement on the transaction's working copy
Apply(q, st) ==
    IF q.kind \in {"insert", "insert_returning"} THEN Insert(st, q.table)
    ELSE st

\* does the statement's result hold rows (fetchall raises
\* ResourceClosedError on a result that does not)
ReturnsRows(q) == q.kind \in {"select", "insert_returning"}

\* number of rows in the statement's result
RowsOf(q, st) == IF q.kind = "select" THEN CountRows(st, q.table) ELSE 1

\* what a statement of the session sees: its transaction's working copy, the
\* committed state when the transaction is yet to begin
Working == IF tx.open THEN tx.st ELSE db

\* The session ends its transaction (if any), gives its connection (if any)
\* back to the pool, and records the call.
SessionEnd(event) ==
    /\ tx' = NoTx
    /\ checkedOut' = IF session.conn THEN checkedOut - 1 ELSE checkedOut
    /\ session' = [conn |-> FALSE, log |-> Append(session.log, event)]

\* session.commit() succeeding
SessionCommit ==
    /\ db' = IF tx.open THEN tx.st ELSE db
    /\ SessionEnd("commit")

\* session.rollback()
SessionRollback ==
    /\ SessionEnd("rollback")
    /\ UNCHANGED db

\* session.close(), also what leaving "async with async_session_maker()" does
SessionClose ==
    /\ SessionEnd("close")
    /\ UNCHANGED db

\* session.execute(statement): the session takes a connection and begins its
\* transaction on first use.  how = "connect": no connection could be had;
\* "statement": the engine failed while executing; "run": the store ran it,
\* and rejects a statement on a table that does not exist.
SessionExecute(q, how) ==
    /\ q.kind # "select" => Working.rows[q.table] < MaxRows
    /\ UNCHANGED db
    /\ IF how = "connect"
       THEN /\ ~session.conn
            /\ UNCHANGED <<tx, checkedOut, session>>
       ELSE /\ session' = [session EXCEPT !.conn = TRUE]
            /\ checkedOut' = IF session.conn THEN checkedOut
                             ELSE checkedOut + 1
            /\ tx' = [open |-> TRUE,
                      st |-> IF how = "run" /\ q.table \in Working.exists
                             THEN Apply(q, Working) ELSE Working]

\* the error session.execute raises, "none" when it returns
ExecuteError(q, how) ==
    IF how # "run" THEN "OperationalError"
    ELSE IF q.table \notin Working.exists
    THEN "ProgrammingError"
    ELSE "none"

(* ---------------------------- execute_query ---------------------------- *)

\* the caller awaits execute_query(query, params): the session is made
CallExecuteQuery ==
    /\ Idle
    /\ StartTop("execute_query")
    /\ \E q \in Queries : local' = [NoLocal EXCEPT !.query = q]
    /\ op' = "execute_query"
    /\ pc' = "execute"
    /\ ret' = NoRet
    /\ session' = NoSession
    /\ cli' = NoCli
    /\ UNCHANGED <<db, tx, checkedOut, reset>>

\* result = await session.execute(text(query), params or {})
QueryExecute ==
    /\ op = "execute_query" /\ pc = "execute"
    /\ \E how \in {"connect", "statement", "run"} :
        /\ SessionExecute(local.query, how)
        /\ LET e == ExecuteError(local.query, how)
           IN /\ local' = [local EXCEPT !.err = e]
              /\ pc' = IF e = "none" THEN "commit" ELSE "except"
        /\ faulted' = (faulted \/ how # "run")
    /\ UNCHANGED <<op, ret, reset, cli, top, pre, calls, prev>>

\* await session.commit()
QueryCommit ==
    /\ op = "execute_query" /\ pc = "commit"
    /\ \E ok \in BOOLEAN :
        IF ok
        THEN /\ local' = [local EXCEPT
                    !.pending = Return(RowsOf(local.query, tx.st))]
             /\ SessionCommit
             /\ pc' = "fetch"
             /\ UNCHANGED faulted
        ELSE /\ local' = [local EXCEPT !.err = "OperationalError"]
             /\ pc' = "except"
             /\ faulted' = TRUE
             /\ UNCHANGED <<db, tx, checkedOut, session>>
    /\ UNCHANGED <<op, ret, reset, cli, top, pre, calls, prev>>

\* return result.fetchall()
QueryFetch ==
    /\ op = "execute_query" /\ pc = "fetch"
    /\ IF ReturnsRows(local.query)
       THEN /\ pc' = "aexit"
            /\ UNCHANGED local
       ELSE /\ local' = [local EXCEPT !.err = "ResourceClosedError"]
            /\ pc' = "except"
    /\ UNCHANGED <<db, tx, checkedOut, op, ret, reset, cli, session, top,
                   pre, faulted, calls, prev>>

\* except Exception as e: await session.rollback(); logger.error; raise
QueryExcept ==
    /\ op = "execute_query" /\ pc = "except"
    /\ SessionRollback
    /\ local' = [local EXCEPT !.pending = Raise(local.err)]
    /\ pc' = "aexit"
    /\ UNCHANGED <<op, ret, reset, cli, top, pre, faulted, calls, prev>>

\* leaving "async with async_session_maker() as session": the session closes
QueryAexit ==
    /\ op = "execute_query" /\ pc = "aexit"
    /\ SessionClose
    /\ ret' = local.pending
    /\ pc' = "ret"
    /\ UNCHANGED <<op, local, reset, cli, top, pre, faulted, calls, prev>>

(* -------------------------------- get_db ------------------------------- *)

\* errors the caller's unit of work raises by itself
AppErrors == {"ValueError", "HTTPException"}

\* the provider is entered: the session is made and yielded to the caller
CallGetDb ==
    /\ Idle
    /\ StartTop("get_db")
    /\ op' = "get_db"
    /\ pc' = "yield"
    /\ ret' = NoRet
    /\ local' = NoLocal
    /\ session' = NoSession
    /\ cli' = NoCli
    /\ UNCHANGED <<db, tx, checkedOut, reset>>

\* the unit of work writes a row through the yielded session; an error of
\* the statement is raised inside the caller's block
UowExecute ==
    /\ op = "get_db" /\ pc = "yield"
    /\ \E t \in Tables, how \in {"connect", "statement", "run"} :
        LET q == [kind |-> "insert", table |-> t]
            e == ExecuteError(q, how)
        IN /\ SessionExecute(q, how)
           /\ local' = [local EXCEPT !.err = e, !.thrown = e,
                                     !.wrote = @ \/ e = "none"]
           /\ pc' = IF e = "none" THEN "yield" ELSE "except"
           /\ faulted' = (faulted \/ how # "run")
    /\ UNCHANGED <<op, ret, reset, cli, top, pre, calls, prev>>

\* the unit of work raises an error of its own
UowRaise ==
    /\ op = "get_db" /\ pc = "yield"
    /\ \E e \in AppErrors : local' = [local EXCEPT !.err = e, !.thrown = e]
    /\ pc' = "except"
    /\ UNCHANGED <<db, tx, checkedOut, op, ret, reset, cli, session, top,
                   pre, faulted, calls, prev>>

\* the unit of work completes: the generator resumes after the yield
UowReturn ==
    /\ op = "get_db" /\ pc = "yield"
    /\ pc' = "commit"
    /\ UNCHANGED <<db, tx, checkedOut, op, ret, local, reset, cli, session,
                   top, pre, faulted, calls, prev>>

\* await session.commit(); it can fail only when a transaction is open
GetDbCommit ==
    /\ op = "get_db" /\ pc = "commit"
    /\ \E ok \in BOOLEAN :
        IF ok
        THEN /\ SessionCommit
             /\ local' = [local EXCEPT !.pending = Return(TRUE)]
             /\ pc' = "finally"
             /\ UNCHANGED faulted
        ELSE /\ tx.open
             /\ local' = [local EXCEPT !.err = "OperationalError"]
             /\ pc' = "except"
             /\ faulted' = TRUE
             /\ UNCHANGED <<db, tx, checkedOut, session>>
    /\ UNCHANGED <<op, ret, reset, cli, top, pre, calls, prev>>

\* mutant of GetDbExcept: "except Exception: raise", the rollback is missing
GetDbExceptNoRollback ==
    /\ op = "get_db" /\ pc = "except"
    /\ local' = [local EXCEPT !.pending = Raise(local.err)]
    /\ pc' = "finally"
    /\ UNCHANGED <<db, tx, checkedOut, session, op, ret, reset, cli, top, pre,
                   faulted, calls, prev>>

\* mutant of GetDbExcept: the handler commits where it should roll back
GetDbExceptCommits ==
    /\ op = "get_db" /\ pc = "except"
    /\ SessionCommit
    /\ local' = [local EXCEPT !.pending = Raise(local.err)]
    /\ pc' = "finally"
    /\ UNCHANGED <<op, ret, reset, cli, top, pre, faulted, calls, prev>>

\* except Exception: await session.rollback(); raise
GetDbExcept ==
    /\ op = "get_db" /\ pc = "except"
    /\ SessionRollback
    /\ local' = [local EXCEPT !.pending = Raise(local.err)]
    /\ pc' = "finally"
    /\ UNCHANGED <<op, ret, reset, cli, top, pre, faulted, calls, prev>>

\* finally: await session.close()
GetDbFinally ==
    /\ op = "get_db" /\ pc = "finally"
    /\ SessionClose
    /\ pc' = "aexit"
    /\ UNCHANGED <<op, ret, local, reset, cli, top, pre, faulted, calls,
                   prev>>

\* leaving "async with async_session_maker() as session": the session is
\* closed once more and control goes back to the provider's caller
GetDbAexit ==
    /\ op = "get_db" /\ pc = "aexit"
    /\ SessionClose
    /\ ret' = local.pending
    /\ pc' = "ret"
    /\ UNCHANGED <<op, local, reset, cli, top, pre, faulted, calls, prev>>

(* ------------------------------ CLI main ------------------------------- *)

Commands == {"test", "create", "drop", "reset", "info"}

\* the DatabaseManager operation a subcommand awaits first
CommandOp(c) ==
    CASE c = "test" -> "test_connection"
      [] c = "create" -> "create_tables"
      [] c = "drop" -> "drop_tables"
      [] c = "reset" -> "drop_tables"
      [] c = "info" -> "get_table_info"

\* the process starts: args = parser.parse_args()
MainStart ==
    /\ Idle
    /\ StartTop("main")
    /\ \E c \in Commands \cup {"none"} :
        cli' = [NoCli EXCEPT !.pc = "parsed", !.command = c]
    /\ op' = "none"
    /\ pc' = "idle"
    /\ ret' = NoRet
    /\ local' = NoLocal
    /\ session' = NoSession
    /\ UNCHANGED <<db, tx, checkedOut, reset>>

\* the process ends with the given status
Exit(status, printed) ==
    cli' = [cli EXCEPT !.pc = "exited", !.exit = status,
                       !.out = @ \cup printed]

\* "if not args.command" and the if / elif chain inside try, up to the await
MainDispatch ==
    /\ cli.pc = "parsed"
    /\ IF cli.command = "none"
       THEN /\ Exit(0, {"help"})
            /\ UNCHANGED <<op, pc, ret, local, reset>>
       ELSE \E confirm \in {"yes", "no", "EOFError"} :
            IF cli.command \in {"drop", "reset"} /\ confirm = "no"
            THEN /\ Exit(0, {})
                 /\ UNCHANGED <<op, pc, ret, local, reset>>
            ELSE IF cli.command \in {"drop", "reset"} /\ confirm = "EOFError"
            THEN /\ Exit(1, {"error"})
                 /\ UNCHANGED <<op, pc, ret, local, reset>>
            ELSE /\ confirm = "yes"
                 /\ cli' = [cli EXCEPT !.pc = "call", !.ran = TRUE]
                 /\ Enter(CommandOp(cli.command))
                 /\ reset' = IF cli.command = "reset" THEN "drop" ELSE "none"
    /\ UNCHANGED <<db, tx, checkedOut, session, top, pre, faulted, calls,
                   prev>>

\* the awaited operation is over: its value is dropped (info prints it), an
\* exception goes to "except Exception as e: print; sys.exit(1)"
MainAfterCall ==
    /\ cli.pc = "call" /\ pc = "ret" /\ reset = "none"
    /\ IF ret.kind = "raise" THEN Exit(1, {"error"})
       ELSE IF cli.command = "info" THEN Exit(0, {"info"})
       ELSE Exit(0, {})
    /\ UNCHANGED <<db, tx, checkedOut, op, pc, ret, local, reset, session,
                   top, pre, faulted, calls, prev>>

(* --------------------------- specification ---------------------------- *)

Init ==
    /\ db \in {EmptyStore,
               [EmptyStore EXCEPT !.exists = {"alembic_version"}]}
    /\ tx = NoTx
    /\ checkedOut = 0
    /\ op = "none"
    /\ pc = "idle"
    /\ ret = NoRet
    /\ local = NoLocal
    /\ reset = "none"
    /\ cli = NoCli
    /\ session = NoSession
    /\ top = "none"
    /\ pre = db
    /\ faulted = FALSE
    /\ calls = <<>>
    /\ prev = [op |-> "none", ok |-> FALSE]

Next ==
    \/ CallLifecycle
    \/ EngineBegin
    \/ TestExecute
    \/ CreateExtensionStep
    \/ MetadataCreateAll
    \/ MetadataDropAll
    \/ InfoListTables
    \/ InfoCount
    \/ EngineBeginExit
    \/ CallReset
    \/ ResetAfterDrop
    \/ ResetAfterCreate
    \/ CallExecuteQuery
    \/ QueryExecute
    \/ QueryCommit
    \/ QueryFetch
    \/ QueryExcept
    \/ QueryAexit
    \/ CallGetDb
    \/ UowExecute
    \/ UowRaise
    \/ UowReturn
    \/ GetDbCommit
    \/ GetDbExcept
    \/ GetDbFinally
    \/ GetDbAexit
    \/ MainStart
    \/ MainDispatch
    \/ MainAfterCall

Spec == Init /\ [][Next]_vars

(* ------------------------------ properties ----------------------------- *)

\* how many times the session has recorded the call ev
Count(ev) == Cardinality({i \in DOMAIN session.log : session.log[i] = ev})

\* position of the first call ev in the session's record, 0 when absent
First(ev) ==
    IF Count(ev) = 0 THEN 0
    ELSE CHOOSE i \in DOMAIN session.log :
            /\ session.log[i] = ev
            /\ \A j \in DOMAIN session.log : session.log[j] = ev => i <= j

\* position of a table name in the alphabetical order of the names
Rank(t) == CHOOSE i \in DOMAIN NameOrder : NameOrder[i] = t

\* a lifecycle operation (or reset_database) has returned its failure value
OpFailed ==
    /\ ret.kind = "return"
    /\ IF op = "get_table_info" THEN DOMAIN ret.val = {"error"}
       ELSE ret.val = FALSE

C3_ExecuteQueryAtomic ==
    (op = "execute_query" /\ pc = "ret") =>
        /\ ret.kind = "return" => db = Apply(local.query, pre)
        /\ ret.kind = "raise" => db = pre

\* C4: test_connection, create_tables, drop_tables, reset_database and
\* get_table_info never raise; when the engine failed at any step the boolean
\* operations return False and get_table_info returns a dict holding only
\* "error".
C4_LifecycleNeverRaises ==
    (op \in Lifecycle \cup {"reset_database"} /\ pc = "ret") =>
        /\ ret.kind = "return"
        /\ faulted => OpFailed

\* C4 witness: create_tables had reached its return True and the commit on
\* leaving the engine.begin() block failed.
C4_Witness ==
    /\ op = "create_tables" /\ pc = "ret"
    /\ faulted /\ local.pending = Return(TRUE)
    /\ ret = Return(FALSE)

\* C5: reset_database awaits drop_tables first and create_tables only after
\* drop_tables returned True; when drop_tables fails create_tables is not
\* awaited and the result is False; the result is True exactly when both
\* returned True, in that order.
C5_ResetOrder ==
    /\ (reset = "create" \/ (op = "reset_database" /\ pc = "ret")) =>
        /\ Len(calls) >= 1
        /\ calls[1].op = "drop_tables"
    /\ reset = "create" => calls = <<[op |-> "drop_tables", ret |-> Return(TRUE)]>>
    /\ (op = "reset_database" /\ pc = "ret") =>
        /\ ret.kind = "return"
        /\ calls[1].ret # Return(TRUE) => (Len(calls) = 1 /\ ret = Return(FALSE))
        /\ (ret = Return(TRUE)) =
                (calls = <<[op |-> "drop_tables", ret |-> Return(TRUE)],
                           [op |-> "create_tables", ret |-> Return(TRUE)]>>)

\* C5 witness: reset_database has returned False after a failed drop_tables.
C5_Witness ==
    /\ op = "reset_database" /\ pc = "ret"
    /\ calls = <<[op |-> "drop_tables", ret |-> Return(FALSE)]>>

\* C6: with the store reachable create_tables returns True, and a call that
\* directly follows a successful create_tables leaves the extension, the set
\* of tables and their rows as the first call left them.
C6_CreateTablesIdempotent ==
    (top = "create_tables" /\ pc = "ret" /\ ~faulted) =>
        /\ ret = Return(TRUE)
        /\ prev = [op |-> "create_tables", ok |-> TRUE] => db = pre

\* C6 witness: the second of two successful create_tables calls in a row is
\* over, on a schema whose tables hold rows.
C6_Witness ==
    /\ top = "create_tables" /\ pc = "ret" /\ ~faulted
    /\ prev = [op |-> "create_tables", ok |-> TRUE]
    /\ \E t \in Registry : t \in db.exists /\ db.rows[t] > 0

\* C7 as stated: after reset_database returns, every table of the registry
\* that existed before the call exists and holds 0 rows.
C7_ResetLeavesTablesEmpty ==
    (op = "reset_database" /\ pc = "ret") =>
        \A t \in Registry \cap pre.exists : t \in db.exists /\ db.rows[t] = 0

\* C7 amended: after reset_database returns True, every table of the registry
\* that existed before the call exists and holds 0 rows.
C7_SuccessfulResetLeavesTablesEmpty ==
    (op = "reset_database" /\ pc = "ret" /\ ret = Return(TRUE)) =>
        \A t \in Registry \cap pre.exists : t \in db.exists /\ db.rows[t] = 0

\* C7 witness: reset_database returned True on a table that held rows.
C7_Witness ==
    /\ op = "reset_database" /\ pc = "ret" /\ ret = Return(TRUE)
    /\ \E t \in Registry \cap pre.exists : pre.rows[t] > 0

\* C8: a successful get_table_info returns as "tables" the tables of the
\* public schema, each once, in ascending alphabetical order, and as
\* "record_counts" one entry per listed table, the table's row count;
\* get_table_info changes no table and no row.
C8_TableInfo ==
    op = "get_table_info" =>
        /\ db = pre
        /\ tx.open => tx.st = db
        /\ (pc = "ret" /\ ~OpFailed) =>
            LET r == ret.val
            IN /\ {r.tables[i] : i \in DOMAIN r.tables} = db.exists
               /\ \A i, j \in DOMAIN r.tables :
                      i < j => Rank(r.tables[i]) < Rank(r.tables[j])
               /\ DOMAIN r.record_counts = db.exists
               /\ \A t \in db.exists :
                      /\ r.record_counts[t] = db.rows[t]
                      /\ r.record_counts[t] >= 0

\* C8 witness: get_table_info succeeded on three tables, one with rows and
\* one without.
C8_Witness ==
    /\ op = "get_table_info" /\ pc = "ret" /\ ~OpFailed
    /\ Len(ret.val.tables) = Len(NameOrder)
    /\ \E t, u \in db.exists :
          ret.val.record_counts[t] > 0 /\ ret.val.record_counts[u] = 0

\* C9: whenever an operation has finished (returned or raised), no connection
\* is checked out of the pool and no transaction is open.
C9_NoConnectionLeft ==
    pc \in {"idle", "ret"} =>
        /\ checkedOut = 0
        /\ ~session.conn
        /\ ~tx.open

\* C9 witness: a lifecycle operation that held a connection when the engine
\* failed has returned.
C9_Witness ==
    /\ op = "get_table_info" /\ pc = "ret" /\ faulted
    /\ local.tables # <<>>

\* C10: when the operation a subcommand ran failed, main prints a failure
\* message and the process exits with status 1; status 0 only when the
\* operation succeeded or was not run.
C10_CliExitStatus ==
    cli.pc = "exited" =>
        /\ (cli.ran /\ OpFailed) => (cli.exit = 1 /\ "error" \in cli.out)
        /\ cli.exit = 0 => (~cli.ran \/ ~OpFailed)

====
